---- MODULE Spec2Model ----
(***************************************************************************)
(* Model of src/src/facebook.py: parse_signed_request with its helper      *)
(* base64_url_decode, and the response handling of GraphAPI.request and    *)
(* GraphAPI.multipart_request.                                             *)
(*                                                                         *)
(* Text and byte strings are sequences of character codes (0..255).        *)
(* Python values that the code passes around (None, str, dict, ...) are    *)
(* tagged tuples <<tag, ...>>, so that any two of them can be compared.    *)
(***************************************************************************)
EXTENDS Integers, Sequences, FiniteSets, TLC

(***************************************************************************)
(* Character codes                                                         *)
(***************************************************************************)
Printable ==
  << " ", "!", "\"", "#", "$", "%", "&", "'", "(", ")", "*", "+", ",", "-", ".", "/",
     "0", "1", "2", "3", "4", "5", "6", "7", "8", "9", ":", ";", "<", "=", ">", "?",
     "@", "A", "B", "C", "D", "E", "F", "G", "H", "I", "J", "K", "L", "M", "N", "O",
     "P", "Q", "R", "S", "T", "U", "V", "W", "X", "Y", "Z", "[", "\\", "]", "^", "_",
     "", "a", "b", "c", "d", "e", "f", "g", "h", "i", "j", "k", "l", "m", "n", "o",
     "p", "q", "r", "s", "t", "u", "v", "w", "x", "y", "z", "{", "|", "}", "~" >>

\* (the entry for code 96 is left empty: the character cannot be written here)
Ord(ch) == 31 + (CHOOSE i \in 1..Len(Printable) : Printable[i] = ch)

\* the byte string written as a tuple of one-character strings
Txt(t) == [i \in 1..Len(t) |-> Ord(t[i])]

Pow2(n) == 2^n

(***************************************************************************)
(* base64: binascii.a2b_base64 as called by base64.b64decode (line 342)    *)
(***************************************************************************)
BASE64_PAD == 61

\* value of a character in the base64 table, -1 when it is not in the table;
\* the pad character is in the table with value 0
table_a2b_base64(c) ==
  IF c >= 65 /\ c <= 90 THEN c - 65
  ELSE IF c >= 97 /\ c <= 122 THEN c - 71
  ELSE IF c >= 48 /\ c <= 57 THEN c + 4
  ELSE IF c = 43 THEN 62
  ELSE IF c = 47 THEN 63
  ELSE IF c = BASE64_PAD THEN 0
  ELSE -1

\* the (num+1)th character of s[i..] that is in the table, or -1
binascii_find_valid(s, i, num) ==
  LET valid == {j \in i..Len(s) : s[j] <= 127 /\ table_a2b_base64(s[j]) # -1}
      after == {j \in valid : Cardinality({h \in valid : h < j}) = num}
  IN IF after = {} THEN -1 ELSE s[CHOOSE j \in after : TRUE]

\* the state of the decoding loop before its first character
a2b_start == [quad_pos |-> 0, leftchar |-> 0, leftbits |-> 0, out |-> <<>>, done |-> FALSE]

\* one pass of the loop body, on the character s[i]; done is set by `break`
a2b_step(s, i, st) ==
  LET c == s[i] IN
    IF st.done THEN st
    ELSE IF c > 127 \/ c \in {13, 10, 32} THEN st
    ELSE IF c = BASE64_PAD
    THEN IF st.quad_pos < 2
            \/ (st.quad_pos = 2 /\ binascii_find_valid(s, i, 1) # BASE64_PAD)
         THEN st
         ELSE [st EXCEPT !.leftbits = 0, !.done = TRUE]
    ELSE IF table_a2b_base64(c) = -1 THEN st
    ELSE LET lc == st.leftchar * 64 + table_a2b_base64(c)
             lb == st.leftbits + 6
         IN IF lb >= 8
            THEN [quad_pos |-> (st.quad_pos + 1) % 4, leftchar |-> lc % Pow2(lb - 8),
                  leftbits |-> lb - 8,
                  out |-> Append(st.out, (lc \div Pow2(lb - 8)) % 256), done |-> FALSE]
            ELSE [quad_pos |-> (st.quad_pos + 1) % 4, leftchar |-> lc,
                  leftbits |-> lb, out |-> st.out, done |-> FALSE]

\* the loop over the characters s[lo..hi] in order, started in state st
\* (the range is walked by halves, which keeps the evaluation shallow)
RECURSIVE a2b_loop(_, _, _, _)
a2b_loop(s, lo, hi, st) ==
  IF lo > hi THEN st
  ELSE IF lo = hi THEN a2b_step(s, lo, st)
  ELSE LET mid == (lo + hi) \div 2
           left == a2b_loop(s, lo, mid, st)
       IN IF left.done THEN left ELSE a2b_loop(s, mid + 1, hi, left)

\* base64.b64decode: the bytes, or TypeError("Incorrect padding")
b64decode(s) ==
  LET r == a2b_loop(s, 1, Len(s), a2b_start)
  IN IF r.leftbits # 0 THEN [ok |-> FALSE, v |-> <<>>, exc |-> "TypeError"]
     ELSE [ok |-> TRUE, v |-> r.out, exc |-> ""]

\* variant: the URL-safe characters are left as they are
translate_untranslated(s) == s

\* unicode.translate with the map - to +, _ to /
translate(s) ==
  [i \in 1..Len(s) |-> IF s[i] = 45 THEN 43 ELSE IF s[i] = 95 THEN 47 ELSE s[i]]

padding_factor(inp) == (4 - (Len(inp) % 4)) % 4

base64_url_decode(inp) ==
  b64decode(translate(inp \o [i \in 1..padding_factor(inp) |-> BASE64_PAD]))

(***************************************************************************)
(* Python values                                                           *)
(***************************************************************************)
PyNone == <<"None">>
PyBool(b) == <<"bool", IF b THEN "True" ELSE "False">>
PyInt(n) == <<"int", n>>
PyStr(bytes) == <<"str", bytes>>
PyList(xs) == <<"list", xs>>
\* a dict is the sequence of its <<key, value>> items, keys being byte strings
PyDict(items) == <<"dict", items>>

TypeOf(v) == v[1]

HasKey(items, k) == \E j \in 1..Len(items) : items[j][1] = k

\* d[k] = v
DictSet(items, k, v) ==
  IF HasKey(items, k)
  THEN [j \in 1..Len(items) |-> IF items[j][1] = k THEN <<k, v>> ELSE items[j]]
  ELSE Append(items, <<k, v>>)

\* dict.get(k): the value, or None when the key is absent
dict_get(d, k) ==
  IF HasKey(d[2], k)
  THEN d[2][CHOOSE j \in 1..Len(d[2]) : d[2][j][1] = k][2]
  ELSE PyNone

\* truth value of an object, as tested by `if x` and `not x`
Truthy(v) ==
  CASE TypeOf(v) = "None" -> FALSE
    [] TypeOf(v) = "bool" -> v[2] = "True"
    [] TypeOf(v) = "int" -> v[2] # 0
    [] OTHER -> v[2] # <<>>

\* str.upper on ASCII text
upper(s) == [i \in 1..Len(s) |-> IF s[i] >= 97 /\ s[i] <= 122 THEN s[i] - 32 ELSE s[i]]

(***************************************************************************)
(* _parse_json (line 55): simplejson.loads on a byte string.               *)
(* A result is [st, v, i]: st is "ok" (value v, next position i), "err"    *)
(* (simplejson raises JSONDecodeError, a ValueError) or "outside" (the     *)
(* text uses escapes, floats, NaN/Infinity or non-ASCII characters in a    *)
(* string, which this model does not decode; DomainOK checks that no run   *)
(* meets one).  A non-ASCII byte outside a string is an error either way:  *)
(* UnicodeDecodeError and JSONDecodeError are both ValueError.             *)
(***************************************************************************)
JsonErr == [st |-> "err", v |-> PyNone, i |-> 0]
JsonOutside == [st |-> "outside", v |-> PyNone, i |-> 0]
JsonOk(v, i) == [st |-> "ok", v |-> v, i |-> i]

IsWs(c) == c \in {32, 9, 10, 13}
IsDigit(c) == c >= 48 /\ c <= 57

RECURSIVE SkipWs(_, _)
SkipWs(b, i) == IF i <= Len(b) /\ IsWs(b[i]) THEN SkipWs(b, i + 1) ELSE i

\* the literal word w starts at b[i]
StartsWith(b, i, w) ==
  /\ i + Len(w) - 1 <= Len(b)
  /\ \A j \in 1..Len(w) : b[i + j - 1] = w[j]

\* the characters of a string up to its closing quote; i is past the opening one
ParseString(b, i) ==
  LET stops == {j \in i..Len(b) : b[j] \in {34, 92} \/ b[j] > 127 \/ b[j] < 32}
      j == CHOOSE x \in stops : \A y \in stops : x <= y
  IN IF stops = {} THEN JsonErr
     ELSE IF b[j] = 34 THEN JsonOk(PyStr(SubSeq(b, i, j - 1)), j + 1)
     ELSE IF b[j] = 92 \/ b[j] > 127 THEN JsonOutside
     ELSE JsonErr

RECURSIVE ParseDigits(_, _, _)
ParseDigits(b, i, n) ==
  IF i <= Len(b) /\ IsDigit(b[i]) THEN ParseDigits(b, i + 1, n * 10 + (b[i] - 48))
  ELSE [n |-> n, i |-> i]

\* -?(0|[1-9][0-9]*) ; a fraction or an exponent is outside the model
ParseNumber(b, i) ==
  LET neg == b[i] = 45
      j == IF neg THEN i + 1 ELSE i
  IN IF j > Len(b) THEN JsonErr
     ELSE IF b[j] = 73 THEN JsonOutside
     ELSE IF ~IsDigit(b[j]) THEN JsonErr
     ELSE LET d == IF b[j] = 48 THEN [n |-> 0, i |-> j + 1] ELSE ParseDigits(b, j, 0)
          IN IF d.i <= Len(b) /\ b[d.i] \in {46, 101, 69} THEN JsonOutside
             ELSE JsonOk(PyInt(IF neg THEN 0 - d.n ELSE d.n), d.i)

RECURSIVE ParseValue(_, _)
RECURSIVE ParseMembers(_, _, _)
RECURSIVE ParseElements(_, _, _)

\* the members of an object; i is at the quote opening the next key
ParseMembers(b, i, items) ==
  IF i > Len(b) \/ b[i] # 34 THEN JsonErr
  ELSE LET k == ParseString(b, i + 1) IN
    IF k.st # "ok" THEN k
    ELSE LET c == SkipWs(b, k.i) IN
      IF c > Len(b) \/ b[c] # 58 THEN JsonErr
      ELSE LET val == ParseValue(b, SkipWs(b, c + 1)) IN
        IF val.st # "ok" THEN val
        ELSE LET e == SkipWs(b, val.i)
                 items2 == DictSet(items, k.v[2], val.v)
             IN IF e > Len(b) THEN JsonErr
                ELSE IF b[e] = 125 THEN JsonOk(PyDict(items2), e + 1)
                ELSE IF b[e] = 44 THEN ParseMembers(b, SkipWs(b, e + 1), items2)
                ELSE JsonErr

\* the elements of an array; i is at the next element
ParseElements(b, i, xs) ==
  LET val == ParseValue(b, i) IN
    IF val.st # "ok" THEN val
    ELSE LET e == SkipWs(b, val.i) IN
      IF e > Len(b) THEN JsonErr
      ELSE IF b[e] = 93 THEN JsonOk(PyList(Append(xs, val.v)), e + 1)
      ELSE IF b[e] = 44 THEN ParseElements(b, SkipWs(b, e + 1), Append(xs, val.v))
      ELSE JsonErr

ParseValue(b, i) ==
  IF i > Len(b) THEN JsonErr
  ELSE LET c == b[i] IN
    IF c = 123
    THEN LET j == SkipWs(b, i + 1) IN
         IF j <= Len(b) /\ b[j] = 125 THEN JsonOk(PyDict(<<>>), j + 1)
         ELSE ParseMembers(b, j, <<>>)
    ELSE IF c = 91
    THEN LET j == SkipWs(b, i + 1) IN
         IF j <= Len(b) /\ b[j] = 93 THEN JsonOk(PyList(<<>>), j + 1)
         ELSE ParseElements(b, j, <<>>)
    ELSE IF c = 34 THEN ParseString(b, i + 1)
    ELSE IF c = 45 \/ IsDigit(c) THEN ParseNumber(b, i)
    ELSE IF StartsWith(b, i, <<110, 117, 108, 108>>) THEN JsonOk(PyNone, i + 4)
    ELSE IF StartsWith(b, i, <<116, 114, 117, 101>>) THEN JsonOk(PyBool(TRUE), i + 4)
    ELSE IF StartsWith(b, i, <<102, 97, 108, 115, 101>>) THEN JsonOk(PyBool(FALSE), i + 5)
    ELSE IF c \in {78, 73} THEN JsonOutside
    ELSE JsonErr

\* simplejson.loads(s): one value, with nothing but white space around it
_parse_json(s) ==
  LET r == ParseValue(s, SkipWs(s, 1)) IN
    IF r.st # "ok" THEN r
    ELSE IF SkipWs(s, r.i) <= Len(s) THEN JsonErr
    ELSE r


(***************************************************************************)
(* hmac.new(secret, msg, digestmod).digest() (line 368).  The digest is    *)
(* modelled as a keyed pseudo-random byte string of the digest's real      *)
(* length, a function of the key and the message; HmacModelOK checks that  *)
(* it has no collision among the keys and messages of the model.           *)
(***************************************************************************)
sha256_digest_size == 32
sha1_digest_size == 20

\* a checksum of the bytes, position by position
RECURSIVE Absorb(_, _, _)
Absorb(bytes, lo, hi) ==
  IF lo > hi THEN 0
  ELSE IF lo = hi THEN ((bytes[lo] + 1) * (((lo * 131) % 251) + 1)) % 65521
  ELSE LET mid == (lo + hi) \div 2
       IN (Absorb(bytes, lo, mid) + Absorb(bytes, mid + 1, hi)) % 65521

Seed(key, msg, digest_size) ==
  (Absorb(key, 1, Len(key)) * 977 + Len(key) * 31 + Absorb(msg, 1, Len(msg)) * 7
     + Len(msg) + digest_size) % 65521

hmac_digest(key, msg, digest_size) ==
  LET seed == Seed(key, msg, digest_size)
  IN [i \in 1..digest_size |->
        (((((seed + 1) * (2 * i + 1)) % 65537) * 75 + 74 + i) % 65537) % 256]

(***************************************************************************)
(* The issuer's side, which the library does not contain: the compact JSON *)
(* text of a value, base64url without padding, and the signed token        *)
(* base64url(HMAC(k, p)) . p  with  p = base64url(json(m)).                *)
(***************************************************************************)
b64url_alphabet ==
  Txt(<< "A", "B", "C", "D", "E", "F", "G", "H", "I", "J", "K", "L", "M", "N", "O", "P",
         "Q", "R", "S", "T", "U", "V", "W", "X", "Y", "Z", "a", "b", "c", "d", "e", "f",
         "g", "h", "i", "j", "k", "l", "m", "n", "o", "p", "q", "r", "s", "t", "u", "v",
         "w", "x", "y", "z", "0", "1", "2", "3", "4", "5", "6", "7", "8", "9", "-", "_" >>)

b64url_encode(bytes) ==
  LET n == (Len(bytes) * 8 + 5) \div 6
      At(k) == IF k <= Len(bytes) THEN bytes[k] ELSE 0
  IN [j \in 1..n |->
        LET bitpos == 6 * (j - 1)
            bi == (bitpos \div 8) + 1
            off == bitpos % 8
        IN b64url_alphabet[(((At(bi) * 256 + At(bi + 1)) \div Pow2(10 - off)) % 64) + 1]]

RECURSIVE IntText(_)
IntText(n) ==
  IF n < 0 THEN <<45>> \o IntText(0 - n)
  ELSE IF n < 10 THEN <<48 + n>>
  ELSE IntText(n \div 10) \o <<48 + (n % 10)>>

RECURSIVE JsonDump(_)
RECURSIVE JsonDumpItems(_, _)
RECURSIVE JsonDumpElems(_, _)
JsonDumpItems(items, j) ==
  IF j > Len(items) THEN <<>>
  ELSE (IF j > 1 THEN <<44>> ELSE <<>>) \o <<34>> \o items[j][1] \o <<34, 58>>
       \o JsonDump(items[j][2]) \o JsonDumpItems(items, j + 1)
JsonDumpElems(xs, j) ==
  IF j > Len(xs) THEN <<>>
  ELSE (IF j > 1 THEN <<44>> ELSE <<>>) \o JsonDump(xs[j]) \o JsonDumpElems(xs, j + 1)
JsonDump(v) ==
  CASE TypeOf(v) = "None" -> <<110, 117, 108, 108>>
    [] TypeOf(v) = "bool" -> IF v[2] = "True" THEN <<116, 114, 117, 101>>
                             ELSE <<102, 97, 108, 115, 101>>
    [] TypeOf(v) = "int" -> IntText(v[2])
    [] TypeOf(v) = "str" -> <<34>> \o v[2] \o <<34>>
    [] TypeOf(v) = "list" -> <<91>> \o JsonDumpElems(v[2], 1) \o <<93>>
    [] TypeOf(v) = "dict" -> <<123>> \o JsonDumpItems(v[2], 1) \o <<125>>

DOT == 46

SignWith(segment, k, digest_size) ==
  b64url_encode(hmac_digest(k, segment, digest_size)) \o <<DOT>> \o segment

Encode(m, k) == SignWith(b64url_encode(JsonDump(m)), k, sha256_digest_size)


(***************************************************************************)
(* Outcomes of a call, and the statements of parse_signed_request          *)
(***************************************************************************)
Unbound == <<"unbound">>
Pending == <<"pending">>
Return(v) == <<"return", v>>
Raise(exc) == <<"raise", exc, PyNone, PyNone>>
\* GraphAPIError(type, message): lines 271-274
GraphAPIError(type, message) == <<"raise", "GraphAPIError", type, message>>

MSG_NOT_VALID == "Not a valid signed_request."
MSG_UNKNOWN_ALGORITHM == "Unknown algorithm. Expected HMAC-SHA256"
MSG_BAD_SIGNATURE == "Bad Signed JSON signature!"

HMAC_SHA256 == Txt(<<"H", "M", "A", "C", "-", "S", "H", "A", "2", "5", "6">>)
ALGORITHM == Txt(<<"a", "l", "g", "o", "r", "i", "t", "h", "m">>)

\* index of the first sep in s at or after i, 0 when there is none
find(s, sep, i) ==
  LET at == {j \in i..Len(s) : s[j] = sep}
  IN IF at = {} THEN 0 ELSE CHOOSE j \in at : \A h \in at : j <= h

\* variant: the split is made at the last '.' (rsplit)
split1_at_last(s) ==
  LET at == {j \in 1..Len(s) : s[j] = DOT}
      d == CHOOSE j \in at : \A h \in at : h <= j
  IN IF at = {} THEN << s >>
     ELSE << SubSeq(s, 1, d - 1), SubSeq(s, d + 1, Len(s)) >>

\* s.split(., 1): one part when s has no '.', else the text before the
\* first '.' and everything after it
split1(s) ==
  LET d == find(s, DOT, 1) IN
    IF d = 0 THEN << s >>
    ELSE << SubSeq(s, 1, d - 1), SubSeq(s, d + 1, Len(s)) >>

\* variant: any algorithm that is a string passes
algorithm_gate_lenient(d) ==
  IF TypeOf(d) # "dict" THEN "raise"
  ELSE IF TypeOf(dict_get(d, ALGORITHM)) # "str" THEN "raise"
  ELSE "pass"

\* variant: the comparison is made without upper()
algorithm_gate_case_sensitive(d) ==
  IF TypeOf(d) # "dict" THEN "raise"
  ELSE IF TypeOf(dict_get(d, ALGORITHM)) # "str" THEN "raise"
  ELSE IF dict_get(d, ALGORITHM)[2] # HMAC_SHA256 THEN "reject"
  ELSE "pass"

\* line 364: data.get('algorithm').upper() != 'HMAC-SHA256'
\* "raise" when data has no get or the field has no upper (AttributeError)
algorithm_gate(d) ==
  IF TypeOf(d) # "dict" THEN "raise"
  ELSE IF TypeOf(dict_get(d, ALGORITHM)) # "str" THEN "raise"
  ELSE IF upper(dict_get(d, ALGORITHM)[2]) # HMAC_SHA256 THEN "reject"
  ELSE "pass"

\* line 368
expected_signature(sec, pl) == hmac_digest(sec, pl, sha256_digest_size)

\* variant: the payload is returned without comparing the signatures
signature_gate_unchecked(sg, expected, d) == [ret |-> Return(d), logged |-> <<>>]

\* variant: a bad signature returns False, not None
signature_gate_false(sg, expected, d) ==
  IF sg = expected THEN [ret |-> Return(d), logged |-> <<>>]
  ELSE [ret |-> Return(PyBool(FALSE)), logged |-> <<MSG_BAD_SIGNATURE>>]

\* lines 370-374
signature_gate(sg, expected, d) ==
  IF sg = expected THEN [ret |-> Return(d), logged |-> <<>>]
  ELSE [ret |-> Return(PyNone), logged |-> <<MSG_BAD_SIGNATURE>>]

VARIABLES pc, signed_request, secret, encoded_sig, payload, sig, data,
          expected_sig, log, result,
          access_token, post_args, files, sent, file, connection, body, response,
          last

psr_vars == <<signed_request, secret, encoded_sig, payload, sig, data, expected_sig, log>>
http_vars == <<access_token, post_args, files, sent, file, connection, body, response>>
vars == <<pc, result, psr_vars, http_vars, last>>


(***************************************************************************)
(* Inputs: the secrets, the payloads an issuer signs, and the tokens a     *)
(* caller may hand to parse_signed_request.                                *)
(***************************************************************************)
P_user ==
  PyDict(<< <<Txt(<<"a", "l", "g", "o", "r", "i", "t", "h", "m">>), PyStr(Txt(<<"H", "M", "A", "C", "-", "S", "H", "A", "2", "5", "6">>))>>,
                   <<Txt(<<"u", "s", "e", "r", "_", "i", "d">>), PyStr(Txt(<<"1", "2", "3">>))>> >>)
P_plain ==
  PyDict(<< <<Txt(<<"a", "l", "g", "o", "r", "i", "t", "h", "m">>), PyStr(Txt(<<"H", "M", "A", "C", "-", "S", "H", "A", "2", "5", "6">>))>> >>)
P_oauth ==
  PyDict(<< <<Txt(<<"a", "l", "g", "o", "r", "i", "t", "h", "m">>), PyStr(Txt(<<"H", "M", "A", "C", "-", "S", "H", "A", "2", "5", "6">>))>>,
                   <<Txt(<<"o", "a", "u", "t", "h", "_", "t", "o", "k", "e", "n">>), PyStr(Txt(<<"t", "k">>))>>,
                   <<Txt(<<"i", "s", "s", "u", "e", "d", "_", "a", "t">>), PyInt(7)>> >>)
P_lower ==
  PyDict(<< <<Txt(<<"a", "l", "g", "o", "r", "i", "t", "h", "m">>), PyStr(Txt(<<"h", "m", "a", "c", "-", "s", "h", "a", "2", "5", "6">>))>>,
                   <<Txt(<<"u", "s", "e", "r", "_", "i", "d">>), PyStr(Txt(<<"1", "2", "3">>))>> >>)
P_mixed ==
  PyDict(<< <<Txt(<<"a", "l", "g", "o", "r", "i", "t", "h", "m">>), PyStr(Txt(<<"H", "m", "a", "c", "-", "S", "h", "a", "2", "5", "6">>))>> >>)
P_sha1_upper ==
  PyDict(<< <<Txt(<<"a", "l", "g", "o", "r", "i", "t", "h", "m">>), PyStr(Txt(<<"H", "M", "A", "C", "-", "S", "H", "A", "1">>))>>,
                   <<Txt(<<"u", "s", "e", "r", "_", "i", "d">>), PyStr(Txt(<<"1", "2", "3">>))>> >>)
P_sha1_lower ==
  PyDict(<< <<Txt(<<"a", "l", "g", "o", "r", "i", "t", "h", "m">>), PyStr(Txt(<<"h", "m", "a", "c", "-", "s", "h", "a", "1">>))>>,
                   <<Txt(<<"u", "s", "e", "r", "_", "i", "d">>), PyStr(Txt(<<"1", "2", "3">>))>> >>)
P_sha1_mixed ==
  PyDict(<< <<Txt(<<"a", "l", "g", "o", "r", "i", "t", "h", "m">>), PyStr(Txt(<<"H", "m", "a", "c", "-", "S", "h", "a", "1">>))>> >>)
P_noalg ==
  PyDict(<< <<Txt(<<"u", "s", "e", "r", "_", "i", "d">>), PyStr(Txt(<<"1", "2", "3">>))>> >>)
P_nullalg ==
  PyDict(<< <<Txt(<<"a", "l", "g", "o", "r", "i", "t", "h", "m">>), PyNone>> >>)

\* payloads whose algorithm field is exactly HMAC-SHA256
ValidPayloads == {P_user, P_plain, P_oauth}
\* the same algorithm in another letter case
CasedPayloads == {P_lower, P_mixed}
\* another algorithm, in several letter cases
OtherAlgPayloads == {P_sha1_upper, P_sha1_lower, P_sha1_mixed}
\* JSON values that have no usable algorithm field
NoAlgPayloads == {P_noalg, P_nullalg, PyList(<<>>), PyNone}
ObjectPayloads == ValidPayloads \cup CasedPayloads \cup OtherAlgPayloads
Payloads == ObjectPayloads \cup NoAlgPayloads

\* payload bytes that are not JSON
NotJson == { Txt(<<"{", "\"", "a", "l", "g", "o", "r", "i", "t", "h", "m", "\"">>),
             Txt(<<"n", "o", "t", " ", "j", "s", "o", "n">>) }

Secrets == { Txt(<<"s", "h", "h", "h">>), Txt(<<"k", "2">>) }

Segment(m) == b64url_encode(JsonDump(m))
Segments == {Segment(m) : m \in Payloads} \cup {b64url_encode(t) : t \in NotJson}

\* payload segments signed with HMAC-SHA256, whatever the payload says
SignedTokens == {SignWith(seg, k, sha256_digest_size) : seg \in Segments, k \in Secrets}
\* payloads declaring SHA-1, signed with HMAC-SHA1
Sha1Tokens ==
  {SignWith(Segment(m), k, sha1_digest_size) : m \in OtherAlgPayloads, k \in Secrets}
\* a well-formed signature segment that is the signature of nothing
WrongSig == b64url_encode([i \in 1..sha256_digest_size |-> 0])
WrongSigTokens == {WrongSig \o <<DOT>> \o Segment(m) : m \in ObjectPayloads}

\* s with the character at position p replaced by c
Replace(s, p, c) == [s EXCEPT ![p] = c]

\* replacement characters tried for the character c: two other characters of
\* the base64url alphabet (the next one, and one differing in the high bit),
\* the standard-alphabet '+' and '/', and '!', '.', '=' from outside it
Replacements(c) ==
  LET v == table_a2b_base64(translate(<<c>>)[1])
  IN ({b64url_alphabet[((v + 1) % 64) + 1], b64url_alphabet[((v + 32) % 64) + 1],
       43, 47, 33, DOT, BASE64_PAD}) \ {c}

\* length of an encoded HMAC-SHA256 signature
SigLen == (sha256_digest_size * 8 + 5) \div 6

TamperBase == {Encode(P_user, k) : k \in Secrets}
TamperedTokens ==
  {Replace(t, p, c) : <<t, p, c>> \in
     {x \in TamperBase \X (1..SigLen) \X (0..127) :
        x[2] < find(x[1], DOT, 1) /\ x[3] \in Replacements(x[1][x[2]])}}

\* every short string over a few characters: covers the empty token, tokens
\* without '.', with several, and segments of every length modulo 4
MaxShortLen == 4
ShortAlphabet == Txt(<<"e", "3", "0", ".">>)
ShortTokens ==
  UNION {{[i \in 1..n |-> ShortAlphabet[f[i]]] : f \in [1..n -> 1..Len(ShortAlphabet)]} :
           n \in 0..MaxShortLen}

Tokens ==
  {PyNone} \cup {PyStr(t) : t \in SignedTokens \cup Sha1Tokens \cup WrongSigTokens
                                  \cup TamperedTokens \cup ShortTokens}


(***************************************************************************)
(* parse_signed_request (lines 345-374), one action per statement          *)
(***************************************************************************)
\* a caller calls parse_signed_request(tok, sec)
call_parse_signed_request(tok, sec) ==
  /\ pc = "idle"
  /\ pc' = "psr_352"
  /\ signed_request' = tok
  /\ secret' = sec
  /\ UNCHANGED <<encoded_sig, payload, sig, data, expected_sig, log, result, http_vars, last>>

\* line 352: if not signed_request: return None
psr_not_signed_request ==
  /\ pc = "psr_352"
  /\ IF ~Truthy(signed_request)
     THEN pc' = "done" /\ result' = Return(PyNone)
     ELSE pc' = "psr_356" /\ result' = result
  /\ UNCHANGED <<psr_vars, http_vars, last>>

\* lines 355-359: encoded_sig, payload = signed_request.split('.', 1)
psr_split ==
  /\ pc = "psr_356"
  /\ LET parts == split1(signed_request[2]) IN
       IF Len(parts) = 2
       THEN /\ encoded_sig' = PyStr(parts[1])
            /\ payload' = PyStr(parts[2])
            /\ pc' = "psr_361"
            /\ UNCHANGED <<log, result>>
       ELSE /\ log' = Append(log, MSG_NOT_VALID)
            /\ result' = Return(PyNone)
            /\ pc' = "done"
            /\ UNCHANGED <<encoded_sig, payload>>
  /\ UNCHANGED <<signed_request, secret, sig, data, expected_sig, http_vars, last>>

\* line 361: sig = base64_url_decode(encoded_sig)
psr_decode_sig ==
  /\ pc = "psr_361"
  /\ LET r == base64_url_decode(encoded_sig[2]) IN
       IF r.ok
       THEN sig' = PyStr(r.v) /\ pc' = "psr_362" /\ result' = result
       ELSE sig' = sig /\ pc' = "done" /\ result' = Raise(r.exc)
  /\ UNCHANGED <<signed_request, secret, encoded_sig, payload, data, expected_sig, log,
                 http_vars, last>>

\* line 362: data = _parse_json(base64_url_decode(payload))
psr_decode_payload ==
  /\ pc = "psr_362"
  /\ LET r == base64_url_decode(payload[2])
         j == _parse_json(r.v)
     IN IF ~r.ok
        THEN data' = data /\ pc' = "done" /\ result' = Raise(r.exc)
        ELSE IF j.st = "ok"
        THEN data' = j.v /\ pc' = "psr_364" /\ result' = result
        ELSE data' = data /\ pc' = "done"
             /\ result' = Raise(IF j.st = "err" THEN "ValueError" ELSE "outside")
  /\ UNCHANGED <<signed_request, secret, encoded_sig, payload, sig, expected_sig, log,
                 http_vars, last>>

\* lines 364-368: the test of the algorithm field, and the expected signature
psr_algorithm ==
  /\ pc = "psr_364"
  /\ LET g == algorithm_gate(data) IN
       CASE g = "raise" ->
              /\ pc' = "done" /\ result' = Raise("AttributeError")
              /\ UNCHANGED <<log, expected_sig>>
         [] g = "reject" ->
              /\ log' = Append(log, MSG_UNKNOWN_ALGORITHM)
              /\ pc' = "done" /\ result' = Return(PyNone)
              /\ UNCHANGED expected_sig
         [] g = "pass" ->
              /\ expected_sig' = PyStr(expected_signature(secret[2], payload[2]))
              /\ pc' = "psr_370"
              /\ UNCHANGED <<log, result>>
  /\ UNCHANGED <<signed_request, secret, encoded_sig, payload, sig, data, http_vars, last>>

\* lines 370-374: if sig == expected_sig: return data, else log and return None
psr_compare ==
  /\ pc = "psr_370"
  /\ result' = signature_gate(sig, expected_sig, data).ret
  /\ log' = log \o signature_gate(sig, expected_sig, data).logged
  /\ pc' = "done"
  /\ UNCHANGED <<signed_request, secret, encoded_sig, payload, sig, data, expected_sig,
                 http_vars, last>>


(***************************************************************************)
(* GraphAPI.request (lines 185-207) and GraphAPI.multipart_request (lines  *)
(* 209-268).  The server's answer is an input: a body, or a failure of the *)
(* network call.                                                           *)
(***************************************************************************)
K_access_token == Txt(<<"a", "c", "c", "e", "s", "s", "_", "t", "o", "k", "e", "n">>)
K_error == Txt(<<"e", "r", "r", "o", "r">>)
K_type == Txt(<<"t", "y", "p", "e">>)
K_message == Txt(<<"m", "e", "s", "s", "a", "g", "e">>)

R_ok ==
  PyDict(<< <<Txt(<<"i", "d">>), PyStr(Txt(<<"1">>))>> >>)
R_err ==
  PyDict(<< <<Txt(<<"e", "r", "r", "o", "r">>), PyDict(<< <<Txt(<<"t", "y", "p", "e">>), PyStr(Txt(<<"O", "A", "u", "t", "h", "E", "x", "c", "e", "p", "t", "i", "o", "n">>))>>, <<Txt(<<"m", "e", "s", "s", "a", "g", "e">>), PyStr(Txt(<<"b", "a", "d">>))>> >>)>> >>)
R_err_extra ==
  PyDict(<< <<Txt(<<"e", "r", "r", "o", "r">>), PyDict(<< <<Txt(<<"m", "e", "s", "s", "a", "g", "e">>), PyStr(Txt(<<"m">>))>>, <<Txt(<<"t", "y", "p", "e">>), PyStr(Txt(<<"T">>))>>, <<Txt(<<"c", "o", "d", "e">>), PyInt(190)>> >>)>> >>)
R_err_nonstr ==
  PyDict(<< <<Txt(<<"e", "r", "r", "o", "r">>), PyDict(<< <<Txt(<<"t", "y", "p", "e">>), PyInt(1)>>, <<Txt(<<"m", "e", "s", "s", "a", "g", "e">>), PyNone>> >>)>> >>)
R_err_empty ==
  PyDict(<< <<Txt(<<"e", "r", "r", "o", "r">>), PyDict(<<>>)>> >>)
R_err_null ==
  PyDict(<< <<Txt(<<"e", "r", "r", "o", "r">>), PyNone>>, <<Txt(<<"i", "d">>), PyStr(Txt(<<"1">>))>> >>)
R_err_notype ==
  PyDict(<< <<Txt(<<"e", "r", "r", "o", "r">>), PyDict(<< <<Txt(<<"m", "e", "s", "s", "a", "g", "e">>), PyStr(Txt(<<"m">>))>> >>)>> >>)
R_err_nomessage ==
  PyDict(<< <<Txt(<<"e", "r", "r", "o", "r">>), PyDict(<< <<Txt(<<"t", "y", "p", "e">>), PyStr(Txt(<<"T">>))>> >>)>> >>)
R_err_str ==
  PyDict(<< <<Txt(<<"e", "r", "r", "o", "r">>), PyStr(Txt(<<"x">>))>> >>)
R_err_int ==
  PyDict(<< <<Txt(<<"e", "r", "r", "o", "r">>), PyInt(1)>> >>)

ResponseValues ==
  {R_ok, R_err, R_err_extra, R_err_nonstr, R_err_empty, R_err_null, R_err_notype,
   R_err_nomessage, R_err_str, R_err_int, PyList(<<>>), PyList(<<PyStr(K_error)>>),
   PyBool(TRUE)}
NotJsonBody == Txt(<<"<", "h", "t", "m", "l", ">">>)
Bodies == {JsonDump(v) : v \in ResponseValues} \cup {NotJsonBody}
NET_FAILURE == <<"network failure">>
NetOutcomes == {NET_FAILURE} \cup {PyStr(b) : b \in Bodies}

AccessTokens == {PyNone, PyStr(Txt(<<"T", "O", "K", "E", "N">>))}
PostArgs == {PyNone, PyDict(<<>>), PyDict(<< <<Txt(<<"m", "e", "s", "s", "a", "g", "e">>), PyStr(Txt(<<"h", "i">>))>> >>)}
Files == {PyNone, PyDict(<<>>), PyDict(<< <<Txt(<<"a", ".", "p", "n", "g">>), PyStr(Txt(<<"x">>))>> >>)}

\* lines 191-196 and 247-252: where the access token is put
args_with_token(tok, pa) ==
  IF Truthy(tok) /\ pa = PyNone THEN PyDict(<< <<K_access_token, tok>> >>) ELSE PyDict(<<>>)
post_args_with_token(tok, pa) ==
  IF Truthy(tok) /\ pa # PyNone THEN PyDict(DictSet(pa[2], K_access_token, tok)) ELSE pa

\* variant: type and message are passed in the wrong order
check_error_swapped(resp) ==
  IF TypeOf(resp) = "dict" /\ Truthy(dict_get(resp, K_error))
  THEN LET e == dict_get(resp, K_error) IN
         IF TypeOf(e) # "dict" THEN Raise("TypeError")
         ELSE IF ~HasKey(e[2], K_type) \/ ~HasKey(e[2], K_message) THEN Raise("KeyError")
         ELSE GraphAPIError(dict_get(e, K_message), dict_get(e, K_type))
  ELSE Return(resp)

\* lines 204-207 and 265-268: the error envelope
check_error(resp) ==
  IF TypeOf(resp) = "dict" /\ Truthy(dict_get(resp, K_error))
  THEN LET e == dict_get(resp, K_error) IN
         IF TypeOf(e) # "dict" THEN Raise("TypeError")
         ELSE IF ~HasKey(e[2], K_type) \/ ~HasKey(e[2], K_message) THEN Raise("KeyError")
         ELSE GraphAPIError(dict_get(e, K_type), dict_get(e, K_message))
  ELSE Return(resp)

\* lines 185-199: build the request and open the URL
call_request(tok, pa, net) ==
  /\ pc = "idle"
  /\ access_token' = tok
  /\ post_args' = post_args_with_token(tok, pa)
  /\ files' = files
  /\ sent' = << IF pa = PyNone THEN "GET" ELSE "POST",
                args_with_token(tok, pa), post_args_with_token(tok, pa), PyNone >>
  /\ IF net = NET_FAILURE
     THEN /\ pc' = "done" /\ result' = Raise("URLError")
          /\ UNCHANGED <<file, body>>
     ELSE /\ pc' = "req_200" /\ result' = result
          /\ file' = "open" /\ body' = net
  /\ UNCHANGED <<connection, response, psr_vars, last>>

\* lines 200-203: response = _parse_json(file.read()), finally file.close()
req_read ==
  /\ pc = "req_200"
  /\ file' = "closed"
  /\ LET j == _parse_json(body[2]) IN
       IF j.st = "ok"
       THEN response' = j.v /\ pc' = "req_204" /\ result' = result
       ELSE response' = response /\ pc' = "done"
            /\ result' = Raise(IF j.st = "err" THEN "ValueError" ELSE "outside")
  /\ UNCHANGED <<access_token, post_args, files, sent, connection, body, psr_vars, last>>

\* lines 204-207
req_check ==
  /\ pc = "req_204"
  /\ result' = check_error(response)
  /\ pc' = "done"
  /\ UNCHANGED <<http_vars, psr_vars, last>>

\* lines 209-259: build the multipart request, send it and get the response;
\* __encode_multipart_data calls .items() on post_args and on files
call_multipart_request(tok, pa, fl, net) ==
  /\ pc = "idle"
  /\ access_token' = tok
  /\ post_args' = post_args_with_token(tok, pa)
  /\ files' = fl
  /\ IF pa = PyNone \/ fl = PyNone
     THEN /\ pc' = "done" /\ result' = Raise("AttributeError")
          /\ connection' = "unused"
          /\ UNCHANGED <<sent, file, body>>
     ELSE /\ sent' = << IF Truthy(post_args_with_token(tok, pa)) \/ Truthy(fl)
                        THEN "POST" ELSE "GET",
                        args_with_token(tok, pa), post_args_with_token(tok, pa), fl >>
          /\ connection' = "open"
          /\ IF net = NET_FAILURE
             THEN /\ pc' = "done" /\ result' = Raise("socket.error")
                  /\ UNCHANGED <<file, body>>
             ELSE /\ pc' = "mp_260" /\ result' = result
                  /\ file' = "open" /\ body' = net
  /\ UNCHANGED <<response, psr_vars, last>>

\* lines 260-264: parse, finally http_response.close() and connection.close()
mp_read ==
  /\ pc = "mp_260"
  /\ file' = "closed"
  /\ connection' = "closed"
  /\ LET j == _parse_json(body[2]) IN
       IF j.st = "ok"
       THEN response' = j.v /\ pc' = "mp_265" /\ result' = result
       ELSE response' = response /\ pc' = "done"
            /\ result' = Raise(IF j.st = "err" THEN "ValueError" ELSE "outside")
  /\ UNCHANGED <<access_token, post_args, files, sent, body, psr_vars, last>>

\* lines 265-268
mp_check ==
  /\ pc = "mp_265"
  /\ result' = check_error(response)
  /\ pc' = "done"
  /\ UNCHANGED <<http_vars, psr_vars, last>>

(***************************************************************************)
(* The program: calls one after another, each from a fresh frame           *)
(***************************************************************************)
Init ==
  /\ pc = "idle" /\ result = Pending
  /\ signed_request = Unbound /\ secret = Unbound
  /\ encoded_sig = Unbound /\ payload = Unbound /\ sig = Unbound
  /\ data = Unbound /\ expected_sig = Unbound /\ log = <<>>
  /\ access_token = Unbound /\ post_args = Unbound /\ files = Unbound
  /\ sent = Unbound /\ file = "none" /\ connection = "none"
  /\ body = Unbound /\ response = Unbound
  /\ last = Pending

drop_frame ==
  /\ pc = "done"
  /\ pc' = "idle" /\ result' = Pending
  /\ signed_request' = Unbound /\ secret' = Unbound
  /\ encoded_sig' = Unbound /\ payload' = Unbound /\ sig' = Unbound
  /\ data' = Unbound /\ expected_sig' = Unbound /\ log' = <<>>
  /\ access_token' = Unbound /\ post_args' = Unbound /\ files' = Unbound
  /\ sent' = Unbound /\ file' = "none" /\ connection' = "none"
  /\ body' = Unbound /\ response' = Unbound

\* the caller has the outcome and drops the frame
finish ==
  /\ drop_frame
  /\ UNCHANGED last

\* a caller that keeps the last rejection it was given: what was logged and
\* what was returned
finish_and_keep ==
  /\ drop_frame
  /\ last' = IF log # <<>> THEN <<log, result>> ELSE last

Next ==
  \/ \E tok \in Tokens, sec \in Secrets : call_parse_signed_request(tok, PyStr(sec))
  \/ psr_not_signed_request
  \/ psr_split
  \/ psr_decode_sig
  \/ psr_decode_payload
  \/ psr_algorithm
  \/ psr_compare
  \/ \E tok \in AccessTokens, pa \in PostArgs, net \in NetOutcomes :
       call_request(tok, pa, net)
  \/ req_read
  \/ req_check
  \/ \E tok \in AccessTokens, pa \in PostArgs, fl \in Files, net \in NetOutcomes :
       call_multipart_request(tok, pa, fl, net)
  \/ mp_read
  \/ mp_check
  \/ finish

Spec == Init /\ [][Next]_vars

\* calls of parse_signed_request by a caller that keeps the last rejection
KeptTokens ==
  {PyStr(t) : t \in ShortTokens \cup Sha1Tokens \cup WrongSigTokens \cup SignedTokens}

NextKeep ==
  \/ \E tok \in KeptTokens, sec \in Secrets : call_parse_signed_request(tok, PyStr(sec))
  \/ psr_not_signed_request
  \/ psr_split
  \/ psr_decode_sig
  \/ psr_decode_payload
  \/ psr_algorithm
  \/ psr_compare
  \/ finish_and_keep

SpecKeep == Init /\ [][NextKeep]_vars

\* the byte strings of the model stay inside what _parse_json models
DomainOK == result # Raise("outside")

\* the digest model separates the keys and the messages of the model
HmacModelOK ==
  \A k1, k2 \in Secrets : \A s1, s2 \in Segments :
    <<k1, s1>> # <<k2, s2>> =>
      hmac_digest(k1, s1, sha256_digest_size) # hmac_digest(k2, s2, sha256_digest_size)


(***************************************************************************)
(* Vocabulary of the properties, computed from the arguments of the call   *)
(* and not from the locals of the function                                 *)
(***************************************************************************)
InParse == signed_request # Unbound
ParseDone == InParse /\ pc = "done"
IsText(v) == TypeOf(v) = "str"
Chars(t) == {t[i] : i \in 1..Len(t)}
HasDot(t) == DOT \in Chars(t)
FirstDot(t) == CHOOSE i \in 1..Len(t) : t[i] = DOT /\ \A j \in 1..(i - 1) : t[j] # DOT
SigSegment(t) == SubSeq(t, 1, FirstDot(t) - 1)
PayloadSegment(t) == SubSeq(t, FirstDot(t) + 1, Len(t))

Accepted == result[1] = "return" /\ result[2] # PyNone
Raised == result[1] = "raise"
RejectedAs(msg) == result = Return(PyNone) /\ log = <<msg>>

\* both segments of t decode, the payload to a JSON value
Decodes(t) ==
  /\ HasDot(t)
  /\ base64_url_decode(SigSegment(t)).ok
  /\ base64_url_decode(PayloadSegment(t)).ok
  /\ _parse_json(base64_url_decode(PayloadSegment(t)).v).st = "ok"
PayloadOf(t) == _parse_json(base64_url_decode(PayloadSegment(t)).v).v
\* the payload is an object whose algorithm field is a string
HasAlgorithm(t) ==
  /\ Decodes(t)
  /\ TypeOf(PayloadOf(t)) = "dict"
  /\ HasKey(PayloadOf(t)[2], ALGORITHM)
  /\ TypeOf(dict_get(PayloadOf(t), ALGORITHM)) = "str"
AlgorithmOf(t) == dict_get(PayloadOf(t), ALGORITHM)[2]
SignatureMatches(t, k) ==
  base64_url_decode(SigSegment(t)).v = hmac_digest(k, PayloadSegment(t), sha256_digest_size)

\* the validly signed tokens, each with its payload and its key
ValidSigned == {<<m, k, Encode(m, k)>> : m \in ValidPayloads, k \in Secrets}

\* t is base with exactly one character of the signature segment replaced
IsSigTamper(t, base) ==
  /\ Len(t) = Len(base)
  /\ \E p \in 1..(FirstDot(base) - 1) :
       /\ t[p] # base[p]
       /\ \A q \in 1..Len(base) : q # p => t[q] = base[q]

(***************************************************************************)
(* C1: a token built by the issuer from a payload whose algorithm is       *)
(* HMAC-SHA256, verified with the key it was signed with, is accepted and  *)
(* the value returned is that payload.                                     *)
(***************************************************************************)
C1_RoundTrip ==
  \A x \in ValidSigned :
    (ParseDone /\ signed_request = PyStr(x[3]) /\ secret = PyStr(x[2]))
      => result = Return(x[1])

C1_Witness ==
  /\ ParseDone /\ Accepted
  /\ \E x \in ValidSigned : signed_request = PyStr(x[3]) /\ secret = PyStr(x[2])
  /\ Chars(signed_request[2]) \cap {45, 95} # {}

GatesPass(t, k) ==
  /\ HasDot(t)
  /\ HasAlgorithm(t)
  /\ upper(AlgorithmOf(t)) = HMAC_SHA256
  /\ SignatureMatches(t, k)

C3_SuccessOnlyThroughGates ==
  ParseDone =>
    /\ Accepted => /\ IsText(signed_request)
                   /\ GatesPass(signed_request[2], secret[2])
                   /\ result = Return(PayloadOf(signed_request[2]))
    /\ ~(IsText(signed_request) /\ GatesPass(signed_request[2], secret[2]))
         => (result = Return(PyNone) \/ Raised)

C3_Witness ==
  /\ ParseDone /\ Accepted
  /\ upper(AlgorithmOf(signed_request[2])) = HMAC_SHA256
  /\ AlgorithmOf(signed_request[2]) # HMAC_SHA256

(***************************************************************************)
(* C4: a token whose payload is a JSON object without an algorithm field   *)
(* ends like a token with another algorithm: None is returned and the      *)
(* unknown-algorithm message is logged, and nothing is raised.             *)
(***************************************************************************)
C4_MissingAlgorithmRejected ==
  (/\ ParseDone /\ IsText(signed_request)
   /\ Decodes(signed_request[2])
   /\ TypeOf(PayloadOf(signed_request[2])) = "dict"
   /\ ~HasKey(PayloadOf(signed_request[2])[2], ALGORITHM))
    => RejectedAs(MSG_UNKNOWN_ALGORITHM)

(***************************************************************************)
(* C5: for a token with a '.', when a segment does not decode as base64    *)
(* or the payload bytes are not JSON, the caller is given the rejection    *)
(* value None and no exception.                                            *)
(***************************************************************************)
C5_DecodeFailureRejected ==
  (/\ ParseDone /\ IsText(signed_request)
   /\ HasDot(signed_request[2])
   /\ ~Decodes(signed_request[2]))
    => (result = Return(PyNone) /\ ~Raised)


C7_StructuralGate ==
  InParse =>
    /\ (pc = "done" /\ (~Truthy(signed_request) \/ ~HasDot(signed_request[2])))
         => /\ result = Return(PyNone)
            /\ encoded_sig = Unbound /\ payload = Unbound
            /\ sig = Unbound /\ data = Unbound /\ expected_sig = Unbound
    /\ encoded_sig # Unbound
         => /\ ~HasDot(encoded_sig[2])
            /\ signed_request[2] = encoded_sig[2] \o <<DOT>> \o payload[2]
    /\ (Truthy(signed_request) /\ HasDot(signed_request[2])
          /\ pc \notin {"psr_352", "psr_356"})
         => encoded_sig # Unbound /\ payload # Unbound

C7_Witness ==
  /\ InParse /\ pc = "psr_361"
  /\ HasDot(payload[2])
  /\ encoded_sig[2] # <<>>

(***************************************************************************)
(* C8: for a token whose segments decode and whose payload has a string    *)
(* algorithm field: when that field in upper case is not HMAC-SHA256 the   *)
(* call returns None with the unknown-algorithm message, whatever the      *)
(* signature, and no expected signature has been computed; when it is      *)
(* HMAC-SHA256 in any letter case the expected signature is computed and   *)
(* the outcome is that of the signature comparison.                        *)
(***************************************************************************)
C8_AlgorithmGateFirst ==
  (ParseDone /\ IsText(signed_request) /\ HasAlgorithm(signed_request[2])) =>
    LET t == signed_request[2] IN
      IF upper(AlgorithmOf(t)) # HMAC_SHA256
      THEN RejectedAs(MSG_UNKNOWN_ALGORITHM) /\ expected_sig = Unbound
      ELSE /\ expected_sig = PyStr(hmac_digest(secret[2], PayloadSegment(t),
                                               sha256_digest_size))
           /\ (Accepted \/ RejectedAs(MSG_BAD_SIGNATURE))

\* a SHA-1 payload in lower case, correctly signed with HMAC-SHA1, is refused
C8_Witness ==
  /\ ParseDone /\ RejectedAs(MSG_UNKNOWN_ALGORITHM)
  /\ signed_request = PyStr(SignWith(Segment(P_sha1_lower), secret[2], sha1_digest_size))

(***************************************************************************)
(* C9: replacing any one character of the signature segment of a validly   *)
(* signed token by another character makes the verification end in the     *)
(* bad-signature rejection.                                                *)
(***************************************************************************)
C9_SignatureTamperDetected ==
  \A x \in ValidSigned :
    (/\ ParseDone /\ IsText(signed_request) /\ secret = PyStr(x[2])
     /\ IsSigTamper(signed_request[2], x[3]))
      => RejectedAs(MSG_BAD_SIGNATURE)

(***************************************************************************)
(* C10: once the response is decoded, request and multipart_request raise  *)
(* GraphAPIError with the remote type and message whenever the response is *)
(* an object with a non-empty error member, return the decoded response    *)
(* unchanged otherwise, and have closed the response handle.               *)
(***************************************************************************)
HttpDone == pc = "done" /\ response # Unbound
ErrorMember(resp) == dict_get(resp, K_error)
HasErrorMember(resp) == TypeOf(resp) = "dict" /\ Truthy(ErrorMember(resp))
\* the error member is an object that has a type and a message
IsEnvelope(resp) ==
  /\ HasErrorMember(resp)
  /\ TypeOf(ErrorMember(resp)) = "dict"
  /\ HasKey(ErrorMember(resp)[2], K_type)
  /\ HasKey(ErrorMember(resp)[2], K_message)

C10_ErrorEnvelope ==
  HttpDone =>
    /\ file = "closed"
    /\ HasErrorMember(response) =>
         /\ result[2] = "GraphAPIError"
         /\ IsEnvelope(response)
         /\ result = GraphAPIError(dict_get(ErrorMember(response), K_type),
                                   dict_get(ErrorMember(response), K_message))
    /\ ~HasErrorMember(response) => result = Return(response)

(***************************************************************************)
(* C10, amended: GraphAPIError with the remote type and message is raised  *)
(* when the error member is an object that has both a type and a message;  *)
(* a non-empty error member of another shape makes the call raise KeyError *)
(* or TypeError; without a non-empty error member the decoded response is  *)
(* returned unchanged; the response handle is closed on all these paths,   *)
(* and so is the connection of multipart_request.                          *)
(***************************************************************************)
C10_WellFormedEnvelope ==
  HttpDone =>
    /\ file = "closed"
    /\ connection \in {"none", "closed"}
    /\ IsEnvelope(response) =>
         result = GraphAPIError(dict_get(ErrorMember(response), K_type),
                                dict_get(ErrorMember(response), K_message))
    /\ (HasErrorMember(response) /\ ~IsEnvelope(response)) =>
         result \in {Raise("KeyError"), Raise("TypeError")}
    /\ ~HasErrorMember(response) => result = Return(response)

C10_Witness ==
  /\ HttpDone /\ response = R_err_extra
  /\ result = GraphAPIError(PyStr(Txt(<<"T">>)), PyStr(Txt(<<"m">>)))
  /\ connection = "closed"


====
